---- MODULE Spec2Model ----
(***************************************************************************)
(* Model of the MessengerPeople sample bot server: the two webhook         *)
(* handlers of src/App.js (route setup function), the API client of        *)
(* src/MessengerPeopleApiClient.js and the reply dispatcher of src/Bot.js. *)
(*                                                                         *)
(* Strings are sequences of pieces.  A piece is a single character where   *)
(* the code works on characters (toLowerCase, replace, template literals   *)
(* over request data) and a whole literal where the code only passes the   *)
(* text along (fixed error messages, reply texts).                         *)
(***************************************************************************)
EXTENDS Naturals, Sequences, FiniteSets, TLC

VARIABLES
  accessToken,    \* apiClient._accessToken, shared by all requests
  pc,             \* per request: where its handler is suspended
  req,            \* per request: endpoint, Authorization header, parsed body
  res,            \* per request: the express response object
  steps,          \* per request: the handler steps executed so far, in order
  tokenCalls,     \* per request: POSTs issued to <authUrl>/token
  messageCalls,   \* per request: POSTs issued to <apiUrl>/messages
  clientPc,       \* a direct caller of the API client: where its call is suspended
  clientPending,  \* the merged config of that caller's pending messages call
  clientLog,      \* the completed calls of that caller, in order
  botMessage,     \* argument of a direct Bot.handle call
  botOutcome,     \* outcome of that call
  axiosError,     \* argument of a direct _extractErrorMessage call
  extracted       \* result of that call

serverVars == <<accessToken, pc, req, res, steps, tokenCalls, messageCalls>>
clientVars == <<clientPc, clientPending, clientLog>>
botVars == <<botMessage, botOutcome>>
extractVars == <<axiosError, extracted>>
vars == <<accessToken, pc, req, res, steps, tokenCalls, messageCalls,
          clientPc, clientPending, clientLog, botMessage, botOutcome, axiosError, extracted>>

(***************************************************************************)
(* Bounds of the model.                                                    *)
(***************************************************************************)
\* number of webhook requests the process receives
MaxRequests == 2

Requests == 1..MaxRequests

\* number of calls a direct caller makes on the API client
MaxClientCalls == 3

(***************************************************************************)
(* JavaScript values.                                                      *)
(***************************************************************************)
Undefined == [type |-> "undefined"]

Str(s) == [type |-> "string", str |-> s]

\* the payload object of a message event
Payload(text) == [type |-> "object", text |-> text]

\* truthiness: undefined and "" are falsy, every other string and every object
\* is truthy
Truthy(v) == CASE v.type = "undefined" -> FALSE
               [] v.type = "string" -> v.str # <<>>
               [] OTHER -> TRUE

\* `${ v }` of a template literal
TemplateString(v) == IF v = Undefined
                       THEN <<"u", "n", "d", "e", "f", "i", "n", "e", "d">>
                       ELSE v.str

UpperChars == <<"A", "B", "C", "D", "E", "F", "G", "H", "I", "J", "K", "L", "M",
                "N", "O", "P", "Q", "R", "S", "T", "U", "V", "W", "X", "Y", "Z">>

LowerChars == <<"a", "b", "c", "d", "e", "f", "g", "h", "i", "j", "k", "l", "m",
                "n", "o", "p", "q", "r", "s", "t", "u", "v", "w", "x", "y", "z">>

ToLowerChar(c) == IF \E i \in DOMAIN UpperChars : UpperChars[i] = c
                    THEN LowerChars[CHOOSE i \in DOMAIN UpperChars : UpperChars[i] = c]
                    ELSE c

ToUpperChar(c) == IF \E i \in DOMAIN LowerChars : LowerChars[i] = c
                    THEN UpperChars[CHOOSE i \in DOMAIN LowerChars : LowerChars[i] = c]
                    ELSE c

\* String.prototype.toLowerCase
ToLowerCase(s) == [i \in DOMAIN s |-> ToLowerChar(s[i])]

\* the characters the regular expression class \s matches (those used here)
WhiteSpace == {" ", "\t", "\n"}

\* whether the literal lit occurs in s at position i
OccursAt(s, lit, i) ==
  /\ i >= 1
  /\ i + Len(lit) - 1 <= Len(s)
  /\ SubSeq(s, i, i + Len(lit) - 1) = lit

\* String.prototype.replace(lit, ''): removes the first occurrence of lit,
\* wherever it is, and leaves s alone when there is none
RemoveFirst(s, lit) ==
  IF \E i \in 1..Len(s) : OccursAt(s, lit, i)
    THEN LET i == CHOOSE k \in 1..Len(s) :
                    /\ OccursAt(s, lit, k)
                    /\ \A j \in 1..(k - 1) : ~OccursAt(s, lit, j)
         IN  SubSeq(s, 1, i - 1) \o SubSeq(s, i + Len(lit), Len(s))
    ELSE s

(***************************************************************************)
(* Bot.handle (src/Bot.js).                                                *)
(***************************************************************************)
GreetingText == <<"Hey there, bot user!">>

InfoText == <<"This is a sample bot, demonstrating the MessengerPeople API. Try to _ping_ it, or ask it to _repeat_ you.">>

PongText == <<"pong">>

YouSaid == <<"Y", "o", "u", " ", "s", "a", "i", "d", ":", "\n">>

RepeatWord == <<"r", "e", "p", "e", "a", "t">>

\* end of the match of /repeat:?\s+/i that starts at position i of s, or 0
\* when there is no match at i.  \s+ is greedy; ":?" gives the colon back
\* only to a \s+ that could then not match either, so it never backtracks
\* into a match.
RepeatMatchEnd(s, i) ==
  IF ~OccursAt(ToLowerCase(s), RepeatWord, i)
    THEN 0
    ELSE LET afterWord == i + Len(RepeatWord)
             afterColon == IF afterWord <= Len(s) /\ s[afterWord] = ":"
                             THEN afterWord + 1
                             ELSE afterWord
             spaces == {k \in afterColon..Len(s) :
                          \A j \in afterColon..k : s[j] \in WhiteSpace}
         IN  IF spaces = {}
               THEN 0
               ELSE CHOOSE k \in spaces : \A j \in spaces : j <= k

\* text.replace(/repeat:?\s+/i, ''): removes the leftmost match
StripRepeat(s) ==
  IF \E i \in 1..Len(s) : RepeatMatchEnd(s, i) # 0
    THEN LET i == CHOOSE k \in 1..Len(s) :
                    /\ RepeatMatchEnd(s, k) # 0
                    /\ \A j \in 1..(k - 1) : RepeatMatchEnd(s, j) = 0
         IN  SubSeq(s, 1, i - 1) \o SubSeq(s, RepeatMatchEnd(s, i) + 1, Len(s))
    ELSE s

Throw(name, message) == [kind |-> "throw", error |-> [name |-> name, message |-> message]]

Return(value) == [kind |-> "return", value |-> value]

\* reading message.payload.text.toLowerCase raises a TypeError when payload
\* or text is undefined (the wording of the message is the runtime's)
CannotReadText == <<"Cannot read property 'text' of undefined">>

CannotReadToLowerCase == <<"Cannot read property 'toLowerCase' of undefined">>

\* (mutation) the switch on the text as it came
SwitchKeyAsIs(text) == text

\* the switch of Bot.handle on the lower-cased text
SwitchKey(text) == ToLowerCase(text)

handle(message) ==
  IF message.payload = Undefined
    THEN Throw("TypeError", CannotReadText)
  ELSE IF message.payload.text = Undefined
    THEN Throw("TypeError", CannotReadToLowerCase)
  ELSE LET text == message.payload.text.str
           key == SwitchKey(text)
       IN  IF key \in {<<"h", "i">>, <<"h", "e", "l", "l", "o">>, <<"h", "e", "y">>}
             THEN Return([text |-> GreetingText])
           ELSE IF key \in {<<"h", "e", "l", "p">>, <<"i", "n", "f", "o">>,
                            <<"a", "b", "o", "u", "t">>}
             THEN Return([text |-> InfoText])
           ELSE IF key = <<"p", "i", "n", "g">>
             THEN Return([text |-> PongText])
           ELSE IF key = RepeatWord
             THEN Return([text |-> YouSaid \o StripRepeat(text)])
           ELSE Return(Undefined)

(***************************************************************************)
(* MessengerPeopleApiClient (src/MessengerPeopleApiClient.js).             *)
(***************************************************************************)
DEFAULT_API_URL == <<"https://api.messengerpeople.dev">>

DEFAULT_AUTH_URL == <<"https://auth.messengerpeople.dev">>

\* an AxiosError: message, and response (undefined when no response arrived)
AxiosError(message, response) == [message |-> message, response |-> response]

\* the response of a failed call, with its parsed body (undefined when none)
ErrorResponse(data) == [type |-> "object", data |-> data]

\* an error body of the APIs
ErrorData(error, hint) == [type |-> "object", error |-> error, hint |-> hint]

\* (mutation) _extractErrorMessage without the hint
_extractErrorMessageNoHint(error) ==
  IF \/ ~Truthy(error.response)
     \/ ~Truthy(error.response.data)
     \/ ~Truthy(error.response.data.error)
    THEN IF Truthy(error.message) THEN error.message.str ELSE <<"Unknown error">>
    ELSE TemplateString(error.message) \o <<": ">>
           \o TemplateString(error.response.data.error)

_extractErrorMessage(error) ==
  IF \/ ~Truthy(error.response)
     \/ ~Truthy(error.response.data)
     \/ ~Truthy(error.response.data.error)
    THEN IF Truthy(error.message) THEN error.message.str ELSE <<"Unknown error">>
    ELSE TemplateString(error.message) \o <<": ">>
           \o TemplateString(error.response.data.error)
           \o (IF Truthy(error.response.data.hint)
                 THEN <<" (">> \o TemplateString(error.response.data.hint) \o <<")">>
                 ELSE <<>>)

\* outcomes of an HTTP call: the promise resolves with a response whose body
\* is data, or rejects with an AxiosError
Resolve(data) == [kind |-> "resolve", data |-> data]

Reject(error) == [kind |-> "reject", error |-> error]

\* authorize up to its first await: TRUE when it returns at once, FALSE when
\* it posts to the token endpoint
AuthorizeSkips(token) == Truthy(token)

\* (mutation) authorize without the check of the access_token field
AuthorizeFinishLenient(outcome) ==
  IF outcome.kind = "reject"
    THEN Throw("Error", <<"Failed to authorize: ">> \o _extractErrorMessage(outcome.error))
    ELSE Return(outcome.data.access_token)

\* authorize after the token call has completed: throws, or returns with
\* the value it stores in _accessToken
AuthorizeFinish(outcome) ==
  IF outcome.kind = "reject"
    THEN Throw("Error", <<"Failed to authorize: ">> \o _extractErrorMessage(outcome.error))
  ELSE IF outcome.data.access_token = Undefined
    THEN Throw("Error", <<"Authorization server returned an invalid response: Access token missing from response">>)
  ELSE Return(outcome.data.access_token)

MessagesUrl == DEFAULT_API_URL \o <<"/messages">>

BearerPrefix == <<"B", "e", "a", "r", "e", "r", " ">>

\* (mutation) request without the check of the stored token
requestUnchecked(token, config) ==
  [kind |-> "call",
   config |-> [authorization |-> BearerPrefix \o TemplateString(token),
               method |-> config.method,
               url |-> config.url,
               data |-> config.data]]

\* request up to its await: throws when no truthy token is stored, else
\* issues the call described by the merged config
request(token, config) ==
  IF ~Truthy(token)
    THEN Throw("Error", <<"Not authorized yet">>)
    ELSE [kind |-> "call",
          config |-> [authorization |-> BearerPrefix \o TemplateString(token),
                      method |-> config.method,
                      url |-> config.url,
                      data |-> config.data]]

\* (mutation) request after the call has completed, reporting the transport
\* error's message alone
RequestFinishPlain(mergedConfig, outcome) ==
  IF outcome.kind = "reject"
    THEN Throw("Error", <<"[API] ">> \o mergedConfig.url \o <<" failed: ">>
                          \o TemplateString(outcome.error.message))
    ELSE Return(outcome.data)

\* request after the call has completed
RequestFinish(mergedConfig, outcome) ==
  IF outcome.kind = "reject"
    THEN Throw("Error", <<"[API] ">> \o mergedConfig.url \o <<" failed: ">>
                          \o _extractErrorMessage(outcome.error))
    ELSE Return(outcome.data)

sendMessage(token, message) ==
  request(token, [method |-> "POST", url |-> MessagesUrl, data |-> message])

(***************************************************************************)
(* Configuration (config.json, read by the route setup function).          *)
(***************************************************************************)
applicationVerificationToken == Str(<<"v", "t">>)

applicationSecret == Str(<<"s", "3", "c", "r">>)

senderId == Str(<<"4", "2">>)

(***************************************************************************)
(* The express response object.  json() sends the response with the status *)
(* code and headers set so far; status() and header() only set fields.     *)
(***************************************************************************)
NotSent == [status |-> 0, headers |-> {}, body |-> Undefined]

NewResponse == [statusCode |-> 200, headers |-> {}, sent |-> FALSE, wire |-> NotSent]

ResStatus(r, code) == [r EXCEPT !.statusCode = code]

ResHeader(r, name, value) == [r EXCEPT !.headers = @ \cup {<<name, value>>}]

ResJson(r, body) ==
  [r EXCEPT !.sent = TRUE,
            !.wire = [status |-> r.statusCode, headers |-> r.headers, body |-> body]]

(***************************************************************************)
(* The webhook handlers (src/App.js, route setup function).  A handler     *)
(* runs from the arrival of its request to its first pending network call, *)
(* and from the completion of a call to the next one or to its return; an  *)
(* effect is what one such run does: the steps it executes, the response   *)
(* object it leaves, where it suspends, the token call and the messages    *)
(* call it issues.                                                         *)
(***************************************************************************)
\* a call in flight, and what it was answered once it has completed
Pending == [kind |-> "pending"]

TokenUrl == DEFAULT_AUTH_URL \o <<"/token">>

\* axios.post(`${ this._authUrl }/token`, ...), issued by authorize
TokenCall == [url |-> TokenUrl, outcome |-> Pending]

\* this._httpClient(mergedConfig), issued by request
MessagesCall(mergedConfig) == [config |-> mergedConfig, outcome |-> Pending]

Effect(stepList, response, at, posts, calls) ==
  [steps |-> stepList, res |-> response, pc |-> at, posts |-> posts, calls |-> calls]

\* Object.keys(req.body): the fields the parsed JSON body carries
ObjectKeys(body) == {k \in DOMAIN body : body[k] # Undefined}

hasOwnProperty(body, key) == key \in ObjectKeys(body)

\* if ( Object.keys(req.body).length === 0 ) return res.json(...).status(400)
BadRequest(response) ==
  ResStatus(ResJson(response, [error |-> <<"Bad request">>]), 400)

\* if ( !req.headers.authorization ) return res.status(401).header(...).json(...)
NotAuthorized(response) ==
  ResJson(ResHeader(ResStatus(response, 401), "WWW-Authenticate", "Bearer"),
          [error |-> <<"Not authorized">>])

\* req.headers.authorization.replace('Bearer ', '')
ExtractSecret(authorization) == Str(RemoveFirst(authorization.str, BearerPrefix))

\* if ( secret !== applicationSecret ) return res.status(401).header(...).json(...)
BadCredentials(response) ==
  ResJson(ResHeader(ResStatus(response, 401), "WWW-Authenticate", "Bearer"),
          [error |-> <<"Bad credentials">>])

\* (mutation) the verification block without the comparison of the tokens
VerificationReplyUnchecked(body, response) ==
  ResJson(response, [challenge |-> body.challenge])

\* the verification block: 403 on a token that differs, else the challenge
VerificationReply(body, response) ==
  IF body.verification_token # applicationVerificationToken
    THEN ResJson(ResStatus(response, 403), [error |-> <<"Bad verification token">>])
    ELSE ResJson(response, [challenge |-> body.challenge])

\* (mutation) the catch block answering without the error's message
CaughtSilently(error, response) ==
  ResJson(ResStatus(response, 500), [error |-> <<"Internal Server Error">>])

\* the catch block: res.status(500).json({ error: error.message })
Caught(error, response) ==
  ResJson(ResStatus(response, 500), [error |-> error.message])

\* the last statement: return res.status(204)
Finished(response) == ResStatus(response, 204)

\* `${ config.senderId }:${ req.body.sender }`
Identifier(body) == TemplateString(senderId) \o <<":">> \o TemplateString(body.sender)

\* the try block after authorize has returned: identifier, bot.handle,
\* sendMessage up to its pending call
AfterAuthorize(body, token, response) ==
  LET payload == handle(body)
      sending == sendMessage(token, [identifier |-> Identifier(body),
                                       payload |-> payload.value])
  IN  IF payload.kind = "throw"
        THEN Effect(<<"dispatch">>, Caught(payload.error, response), "returned", <<>>, <<>>)
      ELSE IF sending.kind = "throw"
        THEN Effect(<<"dispatch", "send">>, Caught(sending.error, response),
                    "returned", <<>>, <<>>)
      ELSE Effect(<<"dispatch", "send">>, response, "awaitSend", <<>>,
                  <<MessagesCall(sending.config)>>)

\* the try block from its start: authorize returns at once or posts to the
\* token endpoint
TryBlock(body, token, response) ==
  IF AuthorizeSkips(token)
    THEN LET rest == AfterAuthorize(body, token, response)
         IN  [rest EXCEPT !.steps = <<"authorize">> \o @]
    ELSE Effect(<<"authorize">>, response, "awaitToken", <<TokenCall>>, <<>>)

\* the handshake check and what follows it, the same in both handlers
FromHandshakeCheck(body, token, response) ==
  IF hasOwnProperty(body, "verification_token")
    THEN Effect(<<"handshakeCheck">>, VerificationReply(body, response), "returned", <<>>, <<>>)
    ELSE LET rest == TryBlock(body, token, response)
         IN  [rest EXCEPT !.steps = <<"handshakeCheck">> \o @]

\* POST /webhooks/message
PublicWebhook(headers, body, token) ==
  IF ObjectKeys(body) = {}
    THEN Effect(<<"emptyCheck">>, BadRequest(NewResponse), "returned", <<>>, <<>>)
    ELSE LET rest == FromHandshakeCheck(body, token, NewResponse)
         IN  [rest EXCEPT !.steps = <<"emptyCheck">> \o @]

\* (mutation) the secured handler with the secret check before the check of
\* the body
SecureWebhookSecretFirst(headers, body, token) ==
  IF ~Truthy(headers.authorization)
    THEN Effect(<<"secretCheck">>, NotAuthorized(NewResponse), "returned", <<>>, <<>>)
  ELSE IF ExtractSecret(headers.authorization) # applicationSecret
    THEN Effect(<<"secretCheck">>, BadCredentials(NewResponse), "returned", <<>>, <<>>)
  ELSE IF ObjectKeys(body) = {}
    THEN Effect(<<"secretCheck", "emptyCheck">>, BadRequest(NewResponse),
                "returned", <<>>, <<>>)
  ELSE LET rest == FromHandshakeCheck(body, token, NewResponse)
       IN  [rest EXCEPT !.steps = <<"secretCheck", "emptyCheck">> \o @]

\* POST /secure-webhooks/message
SecureWebhook(headers, body, token) ==
  IF ObjectKeys(body) = {}
    THEN Effect(<<"emptyCheck">>, BadRequest(NewResponse), "returned", <<>>, <<>>)
  ELSE IF ~Truthy(headers.authorization)
    THEN Effect(<<"emptyCheck", "secretCheck">>, NotAuthorized(NewResponse),
                "returned", <<>>, <<>>)
  ELSE IF ExtractSecret(headers.authorization) # applicationSecret
    THEN Effect(<<"emptyCheck", "secretCheck">>, BadCredentials(NewResponse),
                "returned", <<>>, <<>>)
  ELSE LET rest == FromHandshakeCheck(body, token, NewResponse)
       IN  [rest EXCEPT !.steps = <<"emptyCheck", "secretCheck">> \o @]

(***************************************************************************)
(* Inputs: the requests the server receives and the outcomes of its        *)
(* network calls.                                                          *)
(***************************************************************************)
Body(verification_token, challenge, sender, payload) ==
  [verification_token |-> verification_token, challenge |-> challenge,
   sender |-> sender, payload |-> payload]

EmptyBody == Body(Undefined, Undefined, Undefined, Undefined)

PingBody == Body(Undefined, Undefined, Str(<<"u", "1">>), Payload(Str(<<"p", "i", "n", "g">>)))

UnknownTextBody == Body(Undefined, Undefined, Str(<<"u", "2">>), Payload(Str(<<"x", "y", "z">>)))

GoodHandshake == Body(applicationVerificationToken, Str(<<"a", "b", "c">>), Undefined, Undefined)

BadHandshake == Body(Str(<<"w", "r", "o", "n", "g">>), Undefined, Undefined, Undefined)

Bodies ==
  { EmptyBody, GoodHandshake, BadHandshake, PingBody, UnknownTextBody,
    \* neither the handshake shape nor the message shape
    Body(Undefined, Undefined, Str(<<"u", "1">>), Undefined) }

Headers(authorization) == [authorization |-> authorization]

NoAuthorization == Headers(Undefined)

GoodAuthorization == Headers(Str(BearerPrefix \o applicationSecret.str))

WrongAuthorization == Headers(Str(BearerPrefix \o <<"b", "a", "d">>))

\* "s3Bearer cr": the secret with "Bearer " in its middle
InfixAuthorization == Headers(Str(<<"s", "3">> \o BearerPrefix \o <<"c", "r">>))

\* the public handler never reads the headers
PublicHeaders == {NoAuthorization}

SecureHeaders == {NoAuthorization, GoodAuthorization, WrongAuthorization, InfixAuthorization}

TokenData(access_token) == [type |-> "object", access_token |-> access_token]

UpstreamError ==
  AxiosError(Str(<<"Request failed with status code 401">>),
             ErrorResponse(ErrorData(Str(<<"invalid_client">>), Str(<<"bad secret">>))))

\* what the token endpoint can answer: two different tokens, an empty
\* token, a body without access_token, an error
TokenOutcomes ==
  { Resolve(TokenData(Str(<<"tokA">>))), Resolve(TokenData(Str(<<"tokB">>))),
    Resolve(TokenData(Str(<<>>))), Resolve(TokenData(Undefined)),
    Reject(UpstreamError) }

\* what the messages endpoint can answer
SendOutcomes == { Resolve([type |-> "object"]), Reject(UpstreamError) }

(***************************************************************************)
(* State after construction: no token, no request received.                *)
(***************************************************************************)
NoRequest == [endpoint |-> "none", headers |-> NoAuthorization, body |-> EmptyBody]

NotCalled == [kind |-> "none"]

ServerInit ==
  /\ accessToken = Undefined
  /\ pc = [r \in Requests |-> "idle"]
  /\ req = [r \in Requests |-> NoRequest]
  /\ res = [r \in Requests |-> NewResponse]
  /\ steps = [r \in Requests |-> <<>>]
  /\ tokenCalls = [r \in Requests |-> <<>>]
  /\ messageCalls = [r \in Requests |-> <<>>]

ClientInit ==
  /\ clientPc = "ready"
  /\ clientPending = NotCalled
  /\ clientLog = <<>>

Init ==
  /\ ServerInit
  /\ ClientInit
  /\ botMessage = EmptyBody
  /\ botOutcome = NotCalled
  /\ axiosError = UpstreamError
  /\ extracted = NotCalled

(***************************************************************************)
(* Actions.                                                                *)
(***************************************************************************)
\* what a run of the handler of request r does to the state of r
Apply(r, effect) ==
  /\ pc' = [pc EXCEPT ![r] = effect.pc]
  /\ res' = [res EXCEPT ![r] = effect.res]
  /\ steps' = [steps EXCEPT ![r] = @ \o effect.steps]

\* the calls of r with the outcome of the one in flight recorded
Completed(calls, outcome) == [calls EXCEPT ![Len(calls)].outcome = outcome]

\* requests are numbered in the order of their arrival
NextToArrive(r) == pc[r] = "idle" /\ \A q \in Requests : q < r => pc[q] # "idle"

ReceivePublic(r, headers, body) ==
  /\ NextToArrive(r)
  /\ req' = [req EXCEPT ![r] = [endpoint |-> "public", headers |-> headers, body |-> body]]
  /\ LET effect == PublicWebhook(headers, body, accessToken)
     IN  /\ Apply(r, effect)
         /\ tokenCalls' = [tokenCalls EXCEPT ![r] = @ \o effect.posts]
         /\ messageCalls' = [messageCalls EXCEPT ![r] = @ \o effect.calls]
  /\ UNCHANGED <<accessToken, clientVars, botVars, extractVars>>

ReceiveSecure(r, headers, body) ==
  /\ NextToArrive(r)
  /\ req' = [req EXCEPT ![r] = [endpoint |-> "secure", headers |-> headers, body |-> body]]
  /\ LET effect == SecureWebhook(headers, body, accessToken)
     IN  /\ Apply(r, effect)
         /\ tokenCalls' = [tokenCalls EXCEPT ![r] = @ \o effect.posts]
         /\ messageCalls' = [messageCalls EXCEPT ![r] = @ \o effect.calls]
  /\ UNCHANGED <<accessToken, clientVars, botVars, extractVars>>

\* the token call of request r completes: authorize throws into the catch
\* block, or stores the token and the try block goes on
TokenResponse(r, outcome) ==
  /\ pc[r] = "awaitToken"
  /\ tokenCalls' = [tokenCalls EXCEPT ![r] = Completed(@, outcome)]
  /\ LET authorized == AuthorizeFinish(outcome)
         effect == AfterAuthorize(req[r].body, authorized.value, res[r])
     IN  IF authorized.kind = "throw"
           THEN /\ Apply(r, Effect(<<>>, Caught(authorized.error, res[r]), "returned", <<>>, <<>>))
                /\ UNCHANGED <<accessToken, messageCalls>>
           ELSE /\ accessToken' = authorized.value
                /\ Apply(r, effect)
                /\ messageCalls' = [messageCalls EXCEPT ![r] = @ \o effect.calls]
  /\ UNCHANGED <<req, clientVars, botVars, extractVars>>

\* the messages call of request r completes: sendMessage throws into the
\* catch block, or the handler runs to its last statement
SendResponse(r, outcome) ==
  /\ pc[r] = "awaitSend"
  /\ messageCalls' = [messageCalls EXCEPT ![r] = Completed(@, outcome)]
  /\ LET sent == RequestFinish(messageCalls[r][Len(messageCalls[r])].config, outcome)
     IN  IF sent.kind = "throw"
           THEN Apply(r, Effect(<<>>, Caught(sent.error, res[r]), "returned", <<>>, <<>>))
           ELSE Apply(r, Effect(<<>>, Finished(res[r]), "returned", <<>>, <<>>))
  /\ UNCHANGED <<accessToken, req, tokenCalls, clientVars, botVars, extractVars>>

Next ==
  \/ \E r \in Requests, h \in PublicHeaders, b \in Bodies : ReceivePublic(r, h, b)
  \/ \E r \in Requests, h \in SecureHeaders, b \in Bodies : ReceiveSecure(r, h, b)
  \/ \E r \in Requests, o \in TokenOutcomes : TokenResponse(r, o)
  \/ \E r \in Requests, o \in SendOutcomes : SendResponse(r, o)

Spec == Init /\ [][Next]_vars

(***************************************************************************)
(* Bot.handle called on its own, on one message drawn from BotMessages.    *)
(***************************************************************************)
\* every casing of the word w
Casings(w) ==
  { [i \in DOMAIN w |-> IF i \in upper THEN ToUpperChar(w[i]) ELSE w[i]] :
      upper \in SUBSET (DOMAIN w) }

GreetingWords == {<<"h", "i">>, <<"h", "e", "l", "l", "o">>, <<"h", "e", "y">>}

InfoWords == {<<"h", "e", "l", "p">>, <<"i", "n", "f", "o">>, <<"a", "b", "o", "u", "t">>}

PingWords == {<<"p", "i", "n", "g">>}

RepeatTokens == {<<"r", "e", "p", "e", "a", "t">>, <<"r", "e", "p", "e", "a", "t", ":">>}

SpaceWord == <<"s", "p", "a", "c", "e">>

\* texts that are no keyword of the table in any casing
OtherTexts ==
  { <<"x", "y", "z">>, <<>>, <<"p", "i", "n", "g", "s">>, <<"h", "i", "!">>,
    <<"o", "h", " ", "h", "i">>, <<"4", "2">> }

\* what follows the repeat token: some white space and the text to repeat
Gaps == {<<" ">>, <<" ", " ">>, <<"\t">>}

Rests == {<<"h", "e", "l", "l", "o", " ", "w", "o", "r", "l", "d">>, <<"H", "i">>}

RepeatCommands ==
  { token \o gap \o rest :
      token \in UNION {Casings(t) : t \in RepeatTokens}, gap \in Gaps, rest \in Rests }

\* a keyword with white space around it
PaddedTexts ==
  { <<" ", "p", "i", "n", "g", " ">>, <<"p", "i", "n", "g", " ">>, <<" ", "h", "i">>,
    <<"H", "e", "l", "p", "\n">> }

BotTexts ==
  UNION {Casings(w) : w \in GreetingWords \cup InfoWords \cup PingWords \cup {RepeatWord, SpaceWord}}
    \cup OtherTexts \cup RepeatCommands \cup PaddedTexts

BotSenders == {Str(<<"u", "1">>), Undefined}

BotMessages ==
  { Body(Undefined, Undefined, sender, Payload(Str(t))) : sender \in BotSenders, t \in BotTexts }
    \cup { Body(Undefined, Undefined, Str(<<"u", "1">>), Undefined),
           Body(Undefined, Undefined, Str(<<"u", "1">>), Payload(Undefined)) }

BotInit ==
  /\ ServerInit
  /\ ClientInit
  /\ botMessage \in BotMessages
  /\ botOutcome = NotCalled
  /\ axiosError = UpstreamError
  /\ extracted = NotCalled

BotHandle ==
  /\ botOutcome = NotCalled
  /\ botOutcome' = handle(botMessage)
  /\ UNCHANGED <<serverVars, clientVars, botMessage, extractVars>>

BotNext == BotHandle

BotSpec == BotInit /\ [][BotNext]_vars

(***************************************************************************)
(* _extractErrorMessage called on its own, on one error drawn from         *)
(* AxiosErrors.                                                            *)
(***************************************************************************)
ErrorMessages == {Str(<<"Network Error">>), Str(<<>>), Undefined}

ErrorFields == {Undefined, Str(<<>>), Str(<<"invalid_client">>), Str(<<"server_error">>)}

HintFields == {Undefined, Str(<<>>), Str(<<"bad secret">>), Str(<<"try later">>)}

AxiosErrors ==
  { AxiosError(m, r) :
      m \in ErrorMessages,
      r \in {Undefined, ErrorResponse(Undefined)}
               \cup {ErrorResponse(ErrorData(e, h)) : e \in ErrorFields, h \in HintFields} }

ExtractInit ==
  /\ ServerInit
  /\ ClientInit
  /\ botMessage = EmptyBody
  /\ botOutcome = NotCalled
  /\ axiosError \in AxiosErrors
  /\ extracted = NotCalled

\* who called, and what came back
Extracted(caller, result) == [caller |-> caller, result |-> result]

Extract ==
  /\ extracted = NotCalled
  /\ extracted' = Extracted("_extractErrorMessage", Return(_extractErrorMessage(axiosError)))
  /\ UNCHANGED <<serverVars, clientVars, botVars, axiosError>>

\* the catch block of authorize, on a token call rejected with axiosError
ExtractInAuthorize ==
  /\ extracted = NotCalled
  /\ extracted' = Extracted("authorize", AuthorizeFinish(Reject(axiosError)))
  /\ UNCHANGED <<serverVars, clientVars, botVars, axiosError>>

\* the catch block of request, on a messages call rejected with axiosError
ExtractInRequest ==
  /\ extracted = NotCalled
  /\ extracted' =
       Extracted("request",
                 RequestFinish(sendMessage(Str(<<"tokA">>), [type |-> "object"]).config,
                               Reject(axiosError)))
  /\ UNCHANGED <<serverVars, clientVars, botVars, axiosError>>

ExtractNext == Extract \/ ExtractInAuthorize \/ ExtractInRequest

ExtractSpec == ExtractInit /\ [][ExtractNext]_vars

(***************************************************************************)
(* The API client called directly: authorize and sendMessage in any order  *)
(* on a new client, one call at a time.                                    *)
(***************************************************************************)
\* a completed call: the method, the HTTP calls it issued, how it ended
Call(method, posts, result) == [method |-> method, posts |-> posts, result |-> result]

ClientMessages ==
  { [identifier |-> Identifier(PingBody), payload |-> [text |-> PongText]],
    [identifier |-> Identifier(UnknownTextBody), payload |-> Undefined] }

ClientSpecInit ==
  /\ ServerInit
  /\ ClientInit
  /\ botMessage = EmptyBody
  /\ botOutcome = NotCalled
  /\ axiosError = UpstreamError
  /\ extracted = NotCalled

ClientAuthorize ==
  /\ clientPc = "ready"
  /\ Len(clientLog) < MaxClientCalls
  /\ IF AuthorizeSkips(accessToken)
       THEN /\ clientLog' = Append(clientLog, Call("authorize", 0, Return(Undefined)))
            /\ UNCHANGED clientPc
       ELSE /\ clientPc' = "awaitToken"
            /\ UNCHANGED clientLog
  /\ UNCHANGED <<serverVars, clientPending, botVars, extractVars>>

ClientTokenResponse(outcome) ==
  /\ clientPc = "awaitToken"
  /\ clientPc' = "ready"
  /\ LET authorized == AuthorizeFinish(outcome)
     IN  IF authorized.kind = "throw"
           THEN /\ clientLog' = Append(clientLog, Call("authorize", 1, authorized))
                /\ UNCHANGED accessToken
           ELSE /\ clientLog' = Append(clientLog, Call("authorize", 1, Return(Undefined)))
                /\ accessToken' = authorized.value
  /\ UNCHANGED <<pc, req, res, steps, tokenCalls, messageCalls, clientPending,
                 botVars, extractVars>>

ClientSendMessage(message) ==
  /\ clientPc = "ready"
  /\ Len(clientLog) < MaxClientCalls
  /\ LET sending == sendMessage(accessToken, message)
     IN  IF sending.kind = "throw"
           THEN /\ clientLog' = Append(clientLog, Call("sendMessage", 0, sending))
                /\ UNCHANGED <<clientPc, clientPending>>
           ELSE /\ clientPc' = "awaitSend"
                /\ clientPending' = sending.config
                /\ UNCHANGED clientLog
  /\ UNCHANGED <<serverVars, botVars, extractVars>>

ClientSendResponse(outcome) ==
  /\ clientPc = "awaitSend"
  /\ clientPc' = "ready"
  /\ clientPending' = NotCalled
  /\ clientLog' = Append(clientLog,
                         Call("sendMessage", 1, RequestFinish(clientPending, outcome)))
  /\ UNCHANGED <<serverVars, botVars, extractVars>>

ClientNext ==
  \/ ClientAuthorize
  \/ \E o \in TokenOutcomes : ClientTokenResponse(o)
  \/ \E m \in ClientMessages : ClientSendMessage(m)
  \/ \E o \in SendOutcomes : ClientSendResponse(o)

ClientSpec == ClientSpecInit /\ [][ClientNext]_vars

(***************************************************************************)
(* Properties.                                                             *)
(***************************************************************************)
Arrived(r) == pc[r] # "idle"

Returned(r) == pc[r] = "returned"

StepSet(r) == {steps[r][i] : i \in DOMAIN steps[r]}

Occurrences(seq, x) == Cardinality({i \in DOMAIN seq : seq[i] = x})

\* the response of r as it went over the wire
Answered(r, status, body) ==
  /\ res[r].sent
  /\ res[r].wire.status = status
  /\ res[r].wire.body = body

BadRequestBody == [error |-> <<"Bad request">>]

\* C1: every request with an empty-object body, on either endpoint, is
\* answered 400 {error: "Bad request"} and causes no call to the token
\* endpoint and none to the messages endpoint.
C1_EmptyBodyAnswered400 ==
  \A r \in Requests :
    (Arrived(r) /\ ObjectKeys(req[r].body) = {}) =>
      /\ Answered(r, 400, BadRequestBody)
      /\ tokenCalls[r] = <<>>
      /\ messageCalls[r] = <<>>

\* the Authorization header with a leading "Bearer " removed
PrefixStripped(authorization) ==
  IF OccursAt(authorization.str, BearerPrefix, 1)
    THEN Str(SubSeq(authorization.str, Len(BearerPrefix) + 1, Len(authorization.str)))
    ELSE authorization

\* C2: on the secured endpoint a request with a non-empty body and no
\* Authorization header, or a bearer value other than the secret, is
\* answered 401 with WWW-Authenticate: Bearer and reaches neither the
\* handshake reply, authorize, the dispatcher nor the outbound send.
C2_BadSecretAnswered401 ==
  \A r \in Requests :
    ( /\ Arrived(r)
      /\ req[r].endpoint = "secure"
      /\ ObjectKeys(req[r].body) # {}
      /\ \/ req[r].headers.authorization = Undefined
         \/ PrefixStripped(req[r].headers.authorization) # applicationSecret ) =>
      /\ res[r].sent
      /\ res[r].wire.status = 401
      /\ <<"WWW-Authenticate", "Bearer">> \in res[r].wire.headers
      /\ StepSet(r) \cap {"handshakeCheck", "authorize", "dispatch", "send"} = {}
      /\ tokenCalls[r] = <<>>
      /\ messageCalls[r] = <<>>

\* the request passes the secret check of its endpoint (the public endpoint
\* has none)
PassedSecretCheck(q) ==
  \/ q.endpoint = "public"
  \/ /\ Truthy(q.headers.authorization)
     /\ ExtractSecret(q.headers.authorization) = applicationSecret

\* C3: a request that carries verification_token (and has passed the secret
\* check on the secured endpoint) is answered 200 {challenge: body.challenge}
\* when the field equals the configured token and 403 {error: "Bad
\* verification token"} otherwise; it invokes neither authorize, the
\* dispatcher nor the send, and leaves the cached token unchanged.
C3_HandshakeReply ==
  [][ \A r \in Requests :
        ( /\ pc[r] = "idle"
          /\ pc'[r] # "idle"
          /\ hasOwnProperty(req'[r].body, "verification_token")
          /\ PassedSecretCheck(req'[r]) ) =>
          /\ pc'[r] = "returned"
          /\ res'[r].sent
          /\ IF req'[r].body.verification_token = applicationVerificationToken
               THEN /\ res'[r].wire.status = 200
                    /\ res'[r].wire.body = [challenge |-> req'[r].body.challenge]
               ELSE /\ res'[r].wire.status = 403
                    /\ res'[r].wire.body = [error |-> <<"Bad verification token">>]
          /\ StepSet(r)' \cap {"authorize", "dispatch", "send"} = {}
          /\ tokenCalls'[r] = <<>>
          /\ messageCalls'[r] = <<>>
          /\ accessToken' = accessToken ]_vars

\* a matching handshake on the secured endpoint has been answered while a
\* token is cached
C3_Witness ==
  /\ Truthy(accessToken)
  /\ \E r \in Requests :
       /\ req[r].endpoint = "secure"
       /\ req[r].body = GoodHandshake
       /\ Answered(r, 200, [challenge |-> Str(<<"a", "b", "c">>)])

\* every call r issued was answered successfully, the token calls with a
\* non-empty access token
AllCallsSucceeded(r) ==
  /\ \A i \in DOMAIN tokenCalls[r] :
       /\ tokenCalls[r][i].outcome.kind = "resolve"
       /\ Truthy(tokenCalls[r][i].outcome.data.access_token)
  /\ \A i \in DOMAIN messageCalls[r] : messageCalls[r][i].outcome.kind = "resolve"

\* C4: {sender: u, payload: {text: "ping"}} on the public endpoint, with both
\* upstream endpoints succeeding: one authorize call, at most one token
\* request, exactly one send with identifier "<senderId>:u" and payload
\* {text: "pong"}, and a 204 response with empty body sent to the caller.
C4_PingEndToEnd ==
  \A r \in Requests :
    ( /\ Returned(r)
      /\ req[r].endpoint = "public"
      /\ req[r].body = PingBody
      /\ AllCallsSucceeded(r) ) =>
      /\ Occurrences(steps[r], "authorize") = 1
      /\ Len(tokenCalls[r]) <= 1
      /\ Len(messageCalls[r]) = 1
      /\ messageCalls[r][1].config.data =
           [identifier |-> <<"4", "2", ":", "u", "1">>, payload |-> [text |-> <<"pong">>]]
      /\ Answered(r, 204, Undefined)

ResponseStatuses == {200, 204, 400, 401, 403, 500}

\* C5: every request ends in a terminal HTTP response with a status among
\* 200, 204, 400, 401, 403, 500: once its handler has returned, a response
\* has been sent.
C5_EveryRequestAnswered ==
  \A r \in Requests :
    Returned(r) => (res[r].sent /\ res[r].wire.status \in ResponseStatuses)

\* C6: of two authorize calls in sequence, the second starting after the
\* first has completed successfully, the second issues no request to the
\* token endpoint.
C6_SecondAuthorizeNoCall ==
  \A i \in DOMAIN clientLog :
    ( /\ i > 1
      /\ clientLog[i].method = "authorize"
      /\ clientLog[i - 1].method = "authorize"
      /\ clientLog[i - 1].result.kind = "return" ) =>
      clientLog[i].posts = 0

\* the calls issued to the token endpoint, over all requests
TotalTokenCalls ==
  Cardinality(UNION {{<<r, i>> : i \in DOMAIN tokenCalls[r]} : r \in Requests})

\* C7: over the lifetime of the process, for any interleaving of requests,
\* at most one call to the token endpoint is issued.
C7_AtMostOneTokenCall == TotalTokenCalls <= 1

\* C8: a send attempted while no access token is cached fails with the
\* not-authorized error, performs no HTTP call, and leaves the token state
\* unchanged.
C8_SendWithoutToken ==
  [][ ( /\ clientPc = "ready"
        /\ ~Truthy(accessToken)
        /\ \/ clientPc' = "awaitSend"
           \/ /\ Len(clientLog') > Len(clientLog)
              /\ clientLog'[Len(clientLog')].method = "sendMessage" ) =>
        /\ clientPc' = "ready"
        /\ clientLog' = Append(clientLog,
                                Call("sendMessage", 0, Throw("Error", <<"Not authorized yet">>)))
        /\ accessToken' = accessToken ]_vars

\* a send as the first call on a new client has failed
C8_Witness ==
  /\ accessToken = Undefined
  /\ Len(clientLog) >= 1
  /\ clientLog[1] = Call("sendMessage", 0, Throw("Error", <<"Not authorized yet">>))

BotText == botMessage.payload.text.str

BotCalledOnText ==
  /\ botOutcome # NotCalled
  /\ botMessage.payload # Undefined
  /\ botMessage.payload.text # Undefined

TableWords == GreetingWords \cup InfoWords \cup PingWords \cup {RepeatWord}

IsCasingOf(text, words) == \E w \in words : text \in Casings(w)

\* text with its leading and trailing white space removed
Trimmed(text) ==
  LET inner == {i \in DOMAIN text : text[i] \notin WhiteSpace}
  IN  IF inner = {}
        THEN <<>>
        ELSE SubSeq(text, CHOOSE i \in inner : \A j \in inner : i <= j,
                          CHOOSE i \in inner : \A j \in inner : j <= i)

\* texts that are none of the table's keywords however they are read: not
\* with white space around a keyword, not as a repeat command
MatchesNoRow(text) ==
  /\ ~IsCasingOf(Trimmed(text), TableWords)
  /\ text \notin RepeatCommands

\* C9: every casing of hi/hello/hey yields the greeting, of help/info/about
\* the info text, of ping "pong"; "space" and any text that is none of the
\* table's keywords yield no reply value, and no error is raised.
C9_DispatcherCaseInsensitive ==
  BotCalledOnText =>
    /\ IsCasingOf(BotText, GreetingWords) => botOutcome = Return([text |-> GreetingText])
    /\ IsCasingOf(BotText, InfoWords) => botOutcome = Return([text |-> InfoText])
    /\ IsCasingOf(BotText, PingWords) => botOutcome = Return([text |-> PongText])
    /\ (BotText = SpaceWord \/ MatchesNoRow(BotText)) => botOutcome = Return(Undefined)

\* "PING" has been answered "pong"
C9_Witness ==
  /\ BotCalledOnText
  /\ BotText = <<"P", "I", "N", "G">>
  /\ botOutcome = Return([text |-> <<"pong">>])

\* C10: a text made of a leading "repeat" or "repeat:" (any casing), white
\* space and further text yields "You said:\n" followed by that further
\* text.
C10_RepeatCommand ==
  BotCalledOnText =>
    \A token \in UNION {Casings(t) : t \in RepeatTokens}, gap \in Gaps, rest \in Rests :
      BotText = token \o gap \o rest => botOutcome = Return([text |-> YouSaid \o rest])

\* whether the sequence part occurs in whole as a run of consecutive pieces
Contains(whole, part) == \E i \in 1..(Len(whole) + 1) : OccursAt(whole, part, i)

Last(seq) == seq[Len(seq)]

\* the send of r was rejected with an error body {error, hint}
SendRejectedWithHint(r) ==
  /\ Returned(r)
  /\ messageCalls[r] # <<>>
  /\ Last(messageCalls[r]).outcome.kind = "reject"
  /\ Truthy(Last(messageCalls[r]).outcome.error.response)
  /\ Truthy(Last(messageCalls[r]).outcome.error.response.data)
  /\ Truthy(Last(messageCalls[r]).outcome.error.response.data.error)
  /\ Truthy(Last(messageCalls[r]).outcome.error.response.data.hint)

\* C11: when the messages endpoint rejects the send with a body {error: e,
\* hint: h}, the request is answered 500 and the error field of the response
\* contains "e (h)".
C11_UpstreamErrorSurfaced ==
  \A r \in Requests :
    SendRejectedWithHint(r) =>
      LET data == Last(messageCalls[r]).outcome.error.response.data
      IN  /\ res[r].sent
          /\ res[r].wire.status = 500
          /\ Contains(res[r].wire.body.error,
                      data.error.str \o <<" (">> \o data.hint.str \o <<")">>)

\* a request has been answered after the rejection {invalid_client, bad secret}
C11_Witness ==
  \E r \in Requests :
    /\ SendRejectedWithHint(r)
    /\ Last(messageCalls[r]).outcome = Reject(UpstreamError)
    /\ res[r].sent

\* the authorize call of r failed: its token call was rejected, or answered
\* without an access_token field
AuthorizeFailed(r) ==
  /\ tokenCalls[r] # <<>>
  /\ \/ Last(tokenCalls[r]).outcome.kind = "reject"
     \/ /\ Last(tokenCalls[r]).outcome.kind = "resolve"
        /\ Last(tokenCalls[r]).outcome.data.access_token = Undefined

\* the message of the error authorize raised for r
AuthorizeErrorMessage(r) ==
  IF Last(tokenCalls[r]).outcome.kind = "reject"
    THEN <<"Failed to authorize: ">> \o _extractErrorMessage(Last(tokenCalls[r]).outcome.error)
    ELSE <<"Authorization server returned an invalid response: Access token missing from response">>

\* the dispatcher raised an error on the body of r
DispatcherFailed(r) == "dispatch" \in StepSet(r) /\ handle(req[r].body).kind = "throw"

\* the send of r failed: refused before any call, or rejected by the endpoint
SendFailed(r) ==
  /\ "send" \in StepSet(r)
  /\ \/ messageCalls[r] = <<>>
     \/ Last(messageCalls[r]).outcome.kind = "reject"

SendErrorMessage(r) ==
  IF messageCalls[r] = <<>>
    THEN <<"Not authorized yet">>
    ELSE <<"[API] ">> \o MessagesUrl \o <<" failed: ">>
           \o _extractErrorMessage(Last(messageCalls[r]).outcome.error)

\* C12: a failure of authorize, of the dispatcher or of the send is answered
\* 500 {error: <the error's message>}; when authorize fails the dispatcher
\* is not invoked and no send is made.
C12_FailureAnswered500 ==
  \A r \in Requests :
    /\ AuthorizeFailed(r) =>
         /\ Answered(r, 500, [error |-> AuthorizeErrorMessage(r)])
         /\ StepSet(r) \cap {"dispatch", "send"} = {}
         /\ messageCalls[r] = <<>>
    /\ DispatcherFailed(r) =>
         /\ Answered(r, 500, [error |-> handle(req[r].body).error.message])
         /\ "send" \notin StepSet(r)
         /\ messageCalls[r] = <<>>
    /\ (Returned(r) /\ SendFailed(r)) =>
         Answered(r, 500, [error |-> SendErrorMessage(r)])

\* a failed authorize and a failed dispatcher have both been answered
C12_Witness ==
  \E r, q \in Requests :
    /\ AuthorizeFailed(r) /\ res[r].sent
    /\ DispatcherFailed(q) /\ res[q].sent

\* the body has neither the handshake shape nor the message shape
NeitherShape(body) ==
  /\ ObjectKeys(body) # {}
  /\ ~hasOwnProperty(body, "verification_token")
  /\ \/ body.payload = Undefined
     \/ body.payload.text = Undefined

\* C13: a non-empty body with neither shape is an ordinary message attempt:
\* the dispatcher raises no error on it and yields no reply, and the request
\* goes on to the outbound send instead of the 500 branch.
C13_ShapelessBodyDispatched ==
  \A r \in Requests :
    (NeitherShape(req[r].body) /\ "dispatch" \in StepSet(r)) =>
      /\ "send" \in StepSet(r)
      /\ ~(res[r].sent /\ res[r].wire.status = 500
             /\ res[r].wire.body = [error |-> CannotReadText])

\* C14: once an access token is cached its value never changes, under any
\* interleaving of requests.
C14_TokenNeverChanges == [][Truthy(accessToken) => accessToken' = accessToken]_vars

\* the steps of section 4.4 in their order, for each endpoint
StepOrder(endpoint) ==
  IF endpoint = "secure"
    THEN <<"emptyCheck", "secretCheck", "handshakeCheck", "authorize", "dispatch", "send">>
    ELSE <<"emptyCheck", "handshakeCheck", "authorize", "dispatch", "send">>

IsPrefix(short, long) == Len(short) <= Len(long) /\ SubSeq(long, 1, Len(short)) = short

\* C15: within one request the steps run in the order empty-body check,
\* secret check (secured only), handshake check, authorize, dispatcher,
\* send.  An empty body on the secured endpoint is answered as a bad request
\* before the secret is looked at, and a send is issued only after the
\* request's own authorize has returned and the dispatcher has given the
\* payload it carries.
C15_StepsInOrder ==
  \A r \in Requests :
    Arrived(r) =>
      /\ steps[r] # <<>>
      /\ IsPrefix(steps[r], StepOrder(req[r].endpoint))
      /\ (req[r].endpoint = "secure" /\ ObjectKeys(req[r].body) = {}) =>
           /\ steps[r] = <<"emptyCheck">>
           /\ res[r].sent
           /\ res[r].wire.body = BadRequestBody
           /\ res[r].wire.status # 401
      /\ messageCalls[r] # <<>> =>
           /\ \A i \in DOMAIN tokenCalls[r] :
                /\ tokenCalls[r][i].outcome.kind = "resolve"
                /\ tokenCalls[r][i].outcome.data.access_token # Undefined
           /\ handle(req[r].body).kind = "return"
           /\ messageCalls[r][1].config.data.payload = handle(req[r].body).value

\* an empty body without Authorization has been answered on the secured
\* endpoint, and another secured request has run through all six steps
C15_Witness ==
  \E r, q \in Requests :
    /\ req[r].endpoint = "secure"
    /\ req[r].body = EmptyBody
    /\ req[r].headers = NoAuthorization
    /\ res[r].sent
    /\ req[q].endpoint = "secure"
    /\ steps[q] = StepOrder("secure")
    /\ tokenCalls[q] # <<>>

\* C16: on the secured endpoint a request passes the secret check exactly
\* when its Authorization header, with a leading "Bearer " removed, equals
\* the secret; "Bearer " anywhere else in the header is not removed.
C16_PrefixStrippedCompared ==
  \A r \in Requests :
    ( /\ Arrived(r)
      /\ req[r].endpoint = "secure"
      /\ ObjectKeys(req[r].body) # {}
      /\ Truthy(req[r].headers.authorization) ) =>
      ( "handshakeCheck" \in StepSet(r)
          <=> PrefixStripped(req[r].headers.authorization) = applicationSecret )

\* C17: when an authorize call fails (the token call is rejected, or its
\* response has no access_token), the token is left as it was, the request
\* is answered 500 with the authorization failure and makes no send; a
\* message request that arrives after such a failure, while no token is
\* cached, posts to the token endpoint again.
C17_FailedAuthorizeRetried ==
  [][ \A r \in Requests :
        /\ (pc[r] = "awaitToken" /\ AuthorizeFailed(r)') =>
             /\ accessToken' = accessToken
             /\ pc'[r] = "returned"
             /\ res'[r].sent
             /\ res'[r].wire.status = 500
             /\ res'[r].wire.body = [error |-> AuthorizeErrorMessage(r)']
             /\ messageCalls'[r] = <<>>
        /\ ( /\ pc[r] = "idle" /\ pc'[r] # "idle"
             /\ "authorize" \in StepSet(r)'
             /\ \E q \in Requests : AuthorizeFailed(q)
             /\ ~Truthy(accessToken) ) =>
             /\ pc'[r] = "awaitToken"
             /\ tokenCalls'[r] = <<TokenCall>>
             /\ ~res'[r].sent
    ]_vars

\* the authorize of one request failed and was answered, and the token call
\* of the other has since given the token now cached
C17_Witness ==
  \E r, q \in Requests :
    /\ AuthorizeFailed(r)
    /\ res[r].sent
    /\ r < q
    /\ tokenCalls[q] # <<>>
    /\ Last(tokenCalls[q]).outcome.kind = "resolve"
    /\ Truthy(accessToken)
    /\ accessToken = Last(tokenCalls[q]).outcome.data.access_token

\* the keywords whose reply does not depend on the text
FixedReplyWords == GreetingWords \cup InfoWords \cup PingWords

\* C18: the dispatcher matches on the lower-cased and trimmed text: a text
\* that is a keyword up to leading or trailing white space (" ping ") yields
\* the reply of the keyword itself.
C18_TrimmedMatching ==
  (BotCalledOnText /\ ToLowerCase(Trimmed(BotText)) \in FixedReplyWords) =>
    botOutcome = handle([botMessage EXCEPT !.payload.text = Str(Trimmed(BotText))])

\* a field of an error that is there and not empty
Present(field) == field # Undefined /\ field.str # <<>>

\* the failure has a response whose body has an error field
HasErrorField(error) ==
  /\ error.response # Undefined
  /\ error.response.data # Undefined
  /\ Present(error.response.data.error)

\* the message section 4.1 of the specification describes
ExpectedMessage(error) ==
  IF HasErrorField(error)
    THEN error.message.str \o <<": ">> \o error.response.data.error.str
           \o (IF Present(error.response.data.hint)
                 THEN <<" (">> \o error.response.data.hint.str \o <<")">>
                 ELSE <<>>)
  ELSE IF Present(error.message) THEN error.message.str
  ELSE <<"Unknown error">>

\* C19: for a failure whose response body has an error field the extracted
\* message is "<message>: <error>", with " (<hint>)" appended exactly when
\* there is a hint; for a failure without response, without body or without
\* error field it is the error's own message, or "Unknown error" when it
\* has none.  authorize and request put that same message after their
\* prefix.
C19_ErrorMessageExtraction ==
  (extracted # NotCalled /\ (HasErrorField(axiosError) => axiosError.message # Undefined)) =>
    extracted.result =
      CASE extracted.caller = "_extractErrorMessage" -> Return(ExpectedMessage(axiosError))
        [] extracted.caller = "authorize" ->
             Throw("Error", <<"Failed to authorize: ">> \o ExpectedMessage(axiosError))
        [] extracted.caller = "request" ->
             Throw("Error", <<"[API] ">> \o MessagesUrl \o <<" failed: ">>
                              \o ExpectedMessage(axiosError))

\* authorize has failed on a rejection whose body has an error and a hint
C19_Witness ==
  /\ extracted # NotCalled
  /\ extracted.caller = "authorize"
  /\ axiosError = AxiosError(Str(<<"Network Error">>),
                             ErrorResponse(ErrorData(Str(<<"invalid_client">>),
                                                     Str(<<"bad secret">>))))
  /\ extracted.result =
       Throw("Error", <<"Failed to authorize: ", "Network Error", ": ", "invalid_client",
                        " (", "bad secret", ")">>)

\* C20: whatever access_token the token endpoint returns, once authorize
\* has returned the send of the same request does not fail with the
\* not-authorized error: no webhook request ends in a 500 whose error is
\* "Not authorized yet".
C20_NeverNotAuthorized ==
  \A r \in Requests : ~Answered(r, 500, [error |-> <<"Not authorized yet">>])

\* the dispatcher has run on the body of r and returned no reply
NoReply(r) == "dispatch" \in StepSet(r) /\ handle(req[r].body) = Return(Undefined)

\* C21: a message request whose text matches no rule of the dispatcher
\* still makes exactly one outbound send, to the messages endpoint, with the
\* computed identifier and an absent payload.
C21_NoReplyStillSends ==
  \A r \in Requests :
    NoReply(r) =>
      /\ Len(messageCalls[r]) = 1
      /\ messageCalls[r][1].config.url = MessagesUrl
      /\ messageCalls[r][1].config.data =
           [identifier |-> Identifier(req[r].body), payload |-> Undefined]

====
